---- MODULE Spec2Model ----
(***************************************************************************)
(* Model of circuit/environment/src/helpers/assignment.rs: the Assignment  *)
(* and SameCircuitAssignment snapshots of a circuit and their synthesis    *)
(* (generate_constraints) into a target constraint system.                 *)
(***************************************************************************)
EXTENDS FiniteSets, Integers, Sequences, TLC

(* ------------------------------ bounds --------------------------------- *)
\* Order of the coefficient ring standing for the PrimeField F.
FieldSize == 2
\* Largest number of public (and of private) variables of an assignment.
MaxVars == 1
\* Largest number of constraints, of lookup tables and of lookup constraints
\* of the assignments that vary their structure.
MaxCons == 1
\* Number of synthesis calls that may run side by side.
NumCalls == 2
\* Largest number of lookup tables of the assignments that vary their tables.
MaxTables == 2

F == 0..(FieldSize - 1)
Calls == 1..NumCalls

\* The capacity of a target system that never refuses an allocation.
Unlimited == 2 * MaxVars + 1

None == [tag |-> "None"]

(* --------------------------- data model -------------------------------- *)
\* AssignmentVariable: Constant(value) | Public(index) | Private(index).
Constant(v) == [tag |-> "Constant", arg |-> v]
Public(i) == [tag |-> "Public", arg |-> i]
Private(i) == [tag |-> "Private", arg |-> i]

\* AssignmentLC { constant, terms }: terms is an IndexMap, here the sequence
\* of its (variable, coefficient) entries in iteration order.
AssignmentLC(k, ts) == [constant |-> k, terms |-> ts]
Term(v, q) == [variable |-> v, coefficient |-> q]

\* One entry (index, value) of an IndexMap<Index, F>.
Entry(i, v) == [index |-> i, value |-> v]

\* Assignment { public, private, constraints, tables, lookup_constraints }.
Assignment(pub, priv, cons, tabs, lcons) ==
    [public |-> pub, private |-> priv, constraints |-> cons,
     tables |-> tabs, lookup_constraints |-> lcons]
\* num_nonzeros that leaves the constant out.
num_nonzeros_terms_only(lc) == Len(lc.terms)

\* AssignmentLC::num_nonzeros.
num_nonzeros(lc) ==
    IF lc.constant = 0 THEN Len(lc.terms) ELSE Len(lc.terms) + 1

\* Assignment::num_public, num_private, num_constraints, num_lookup_tables,
\* num_lookup_constraints.
num_public(a) == Len(a.public)
num_private(a) == Len(a.private)
num_constraints(a) == Len(a.constraints)
num_lookup_tables(a) == Len(a.tables)
num_lookup_constraints(a) == Len(a.lookup_constraints)

(* ------------------------- field arithmetic ---------------------------- *)
FAdd(x, y) == (x + y) % FieldSize
FMul(x, y) == (x * y) % FieldSize

(* ----------------------- bounded input domains ------------------------- *)
SeqsUpTo(S, n) == UNION {[1..k -> S] : k \in 0..n}

\* Key sequences of an IndexMap with n entries: n distinct keys.
KeySeqs(n) == {ks \in [1..n -> 0..n] : \A i, j \in 1..n : i # j => ks[i] # ks[j]}
Ascending(n) == [i \in 1..n |-> i - 1]

\* Maps with the given keys and every value equal to v.
MapOf(ks, vs) == [i \in DOMAIN ks |-> Entry(ks[i], vs[i])]
Uniform(n, v) == [i \in 1..n |-> v]

One == AssignmentLC(1, <<>>)
Pub0 == AssignmentLC(0, <<Term(Public(0), 1)>>)
Priv0 == AssignmentLC(0, <<Term(Private(0), 1)>>)

\* Linear combinations over the first public and the first private variable.
GoodLCs ==
    {AssignmentLC(k, <<>>) : k \in {0, 1}}
    \cup {AssignmentLC(k, <<Term(Public(0), 1)>>) : k \in {0, 1}}
    \cup {AssignmentLC(k, <<Term(Private(0), 1)>>) : k \in {0, 1}}
    \cup {AssignmentLC(0, <<Term(Private(0), 1), Term(Public(0), FieldSize - 1)>>)}

\* Constraints of the structural family: no variable, a * 1 = a over the
\* first private variable, and one with a Constant identity among its terms.
SmallCons ==
    {<<One, One, One>>,
     <<Priv0, One, Priv0>>,
     <<AssignmentLC(0, <<Term(Constant(1), 1)>>), One, One>>}

\* Lookup tables: each a set of rows (a, b, c).
TablePool == {{<<0, 0, 0>>, <<1, 1, 1>>}, {<<1, 1, 1>>}}

\* Lookup constraints of the structural family: any table index up to MaxCons,
\* so that an index beyond the registered tables occurs.
SmallLookups == {<<One, One, One, t>> : t \in 0..MaxCons}

\* Every key order, default values, one constraint.
KeyVariants ==
    {Assignment(MapOf(kp, Uniform(Len(kp), 1)), MapOf(kr, Uniform(Len(kr), 1)),
                <<<<One, One, One>>>>, <<>>, <<>>) :
        kp \in UNION {KeySeqs(n) : n \in 0..MaxVars},
        kr \in UNION {KeySeqs(n) : n \in 0..MaxVars}}

\* Ascending keys, default values, every structure over the small pools.
StructVariants ==
    {Assignment(MapOf(Ascending(p), Uniform(p, 1)), MapOf(Ascending(r), Uniform(r, 1)),
                cons, tabs, lcons) :
        p \in 0..MaxVars, r \in 0..MaxVars,
        cons \in SeqsUpTo(SmallCons, MaxCons),
        tabs \in SeqsUpTo(TablePool, MaxCons),
        lcons \in SeqsUpTo(SmallLookups, MaxCons)}

\* One public and one private variable of any value, one constraint of any
\* three linear combinations, one table and one lookup constraint on it.
ValueVariants ==
    {Assignment(<<Entry(0, x)>>, <<Entry(0, w)>>, <<<<a, b, c>>>>,
                <<{<<0, 0, 0>>, <<1, 1, 1>>}>>, <<<<Priv0, Pub0, One, 0>>>>) :
        x \in F, w \in F, a \in GoodLCs, b \in GoodLCs, c \in GoodLCs}

\* No variable and no constraint; up to MaxTables tables, each holding the row
\* (1, 1, 1) alone or the row (0, 0, 0) alone, in any order, and one lookup
\* constraint per table, each bound to any of the tables.
TableVariants ==
    UNION {
      {Assignment(<<>>, <<>>, <<>>, tabs,
                  [k \in 1..Len(tabs) |-> <<One, One, One, f[k]>>]) :
         f \in [1..Len(tabs) -> 0..(Len(tabs) - 1)]} :
      tabs \in SeqsUpTo({{<<1, 1, 1>>}, {<<0, 0, 0>>}}, MaxTables)}

\* Any counts of variables and one term naming a Constant or a public or
\* private index up to MaxVars, in a side of the one constraint or of the
\* one lookup constraint.
RefVariants ==
    UNION {
      {Assignment(MapOf(Ascending(p), Uniform(p, 1)), MapOf(Ascending(r), Uniform(r, 1)),
                  <<<<One, AssignmentLC(0, <<Term(v, 1)>>), One>>>>, <<>>, <<>>),
       Assignment(MapOf(Ascending(p), Uniform(p, 1)), MapOf(Ascending(r), Uniform(r, 1)),
                  <<>>, <<{<<1, 1, 1>>}>>,
                  <<<<One, One, AssignmentLC(0, <<Term(v, 1)>>), 0>>>>)} :
      p \in 0..MaxVars, r \in 0..MaxVars,
      v \in {Constant(1)} \cup {Public(j) : j \in 0..MaxVars}
              \cup {Private(j) : j \in 0..MaxVars}}

Assignments ==
    KeyVariants \cup StructVariants \cup ValueVariants \cup TableVariants
    \cup RefVariants

\* The second Assignment handed to create_with_base, with a structure of its
\* own that the constructor drops: ascending keys of any counts with all values
\* equal, or MaxVars keys in any order on one side.
OtherStructure(pub, priv) ==
    Assignment(pub, priv, <<<<Pub0, Pub0, Pub0>>, <<One, One, One>>>>, <<>>, <<>>)

Others ==
    {OtherStructure(MapOf(Ascending(p), Uniform(p, v)), MapOf(Ascending(r), Uniform(r, v))) :
        p \in 0..MaxVars, r \in 0..MaxVars, v \in F}
    \cup {OtherStructure(MapOf(kp, Uniform(MaxVars, 1)),
                         MapOf(Ascending(MaxVars), Uniform(MaxVars, 1))) :
            kp \in KeySeqs(MaxVars)}
    \cup {OtherStructure(MapOf(Ascending(MaxVars), Uniform(MaxVars, 1)),
                         MapOf(kr, Uniform(MaxVars, 1))) :
            kr \in KeySeqs(MaxVars)}

(* ------------------- target constraint system -------------------------- *)
\* r1cs::Index of a target variable.
IndexPublic(j) == [tag |-> "Index::Public", arg |-> j]
IndexPrivate(j) == [tag |-> "Index::Private", arg |-> j]

\* A freshly created target: the implicit "one" in public slot 0, nothing else.
\* capacity is the number of allocations it accepts before refusing one.
NewCS(cap) ==
    [public |-> <<1>>, private |-> <<>>, constraints |-> <<>>, tables |-> <<>>,
     lookups |-> <<>>, capacity |-> cap]

cs_num_public_variables(cs) == Len(cs.public)
cs_num_private_variables(cs) == Len(cs.private)
cs_num_constraints(cs) == Len(cs.constraints) + Len(cs.lookups)

\* ConstraintSystem::alloc_input: the new variable takes the next public slot.
cs_alloc_input(cs, v) ==
    IF Len(cs.public) - 1 + Len(cs.private) >= cs.capacity
    THEN [err |-> TRUE, cs |-> cs, variable |-> None]
    ELSE [err |-> FALSE, cs |-> [cs EXCEPT !.public = Append(@, v)],
          variable |-> IndexPublic(Len(cs.public))]

\* ConstraintSystem::alloc: the new variable takes the next private slot.
cs_alloc(cs, v) ==
    IF Len(cs.public) - 1 + Len(cs.private) >= cs.capacity
    THEN [err |-> TRUE, cs |-> cs, variable |-> None]
    ELSE [err |-> FALSE, cs |-> [cs EXCEPT !.private = Append(@, v)],
          variable |-> IndexPrivate(Len(cs.private))]

\* ConstraintSystem::enforce.
cs_enforce(cs, a, b, c) == [cs EXCEPT !.constraints = Append(@, <<a, b, c>>)]

\* ConstraintSystem::add_lookup_table.
cs_add_lookup_table(cs, table) == [cs EXCEPT !.tables = Append(@, table)]

\* ConstraintSystem::enforce_lookup: refuses a table that is not registered.
cs_enforce_lookup(cs, a, b, c, table_index) ==
    IF table_index >= Len(cs.tables)
    THEN [err |-> TRUE, cs |-> cs]
    ELSE [err |-> FALSE, cs |-> [cs EXCEPT !.lookups = Append(@, <<a, b, c, table_index>>)]]

\* r1cs::LinearCombination: the sequence of its (coefficient, variable) terms.
lc_zero == <<>>
lc_add(lc, q, g) == Append(lc, [coefficient |-> q, variable |-> g])

\* The value a target variable holds.
cs_value(cs, g) ==
    IF g.tag = "Index::Public" THEN cs.public[g.arg + 1] ELSE cs.private[g.arg + 1]

RECURSIVE cs_eval(_, _, _)
cs_eval(cs, lc, n) ==
    IF n = 0 THEN 0
    ELSE FAdd(cs_eval(cs, lc, n - 1), FMul(lc[n].coefficient, cs_value(cs, lc[n].variable)))

\* TestConstraintSystem::is_satisfied.
cs_is_satisfied(cs) ==
    /\ \A k \in DOMAIN cs.constraints :
          LET t == cs.constraints[k] IN
          FMul(cs_eval(cs, t[1], Len(t[1])), cs_eval(cs, t[2], Len(t[2])))
              = cs_eval(cs, t[3], Len(t[3]))
    /\ \A k \in DOMAIN cs.lookups :
          LET t == cs.lookups[k] IN
          <<cs_eval(cs, t[1], Len(t[1])), cs_eval(cs, t[2], Len(t[2])),
            cs_eval(cs, t[3], Len(t[3]))>> \in cs.tables[t[4] + 1]

(* -------------------- linear-combination conversion -------------------- *)
\* struct Converter { public, private }: index -> target variable.
NewConverter == [public |-> <<>>, private |-> <<>>]
insert(m, k, g) == [x \in DOMAIN m \cup {k} |-> IF x = k THEN g ELSE m[x]]

\* convert_linear_combination, the first n terms: panic names the assertion
\* that stopped the conversion ("" when none did).
RECURSIVE convert_terms(_, _, _)
convert_terms(conv, terms, n) ==
    IF n = 0 THEN [panic |-> "", lc |-> lc_zero]
    ELSE
      LET prev == convert_terms(conv, terms, n - 1)
          variable == terms[n].variable
          coefficient == terms[n].coefficient
          index == variable.arg
      IN  IF prev.panic # "" THEN prev
          ELSE IF variable.tag = "Constant"
          THEN [prev EXCEPT !.panic = "unreachable_constant"]
          ELSE IF variable.tag = "Public"
          THEN IF index \notin DOMAIN conv.public
               THEN [prev EXCEPT !.panic = "unwrap_public"]
               ELSE IF IndexPublic(index + 1) # conv.public[index]
               THEN [prev EXCEPT !.panic = "slot_public"]
               ELSE [prev EXCEPT !.lc = lc_add(@, coefficient, conv.public[index])]
          ELSE IF index \notin DOMAIN conv.private
               THEN [prev EXCEPT !.panic = "unwrap_private"]
               ELSE IF IndexPrivate(index) # conv.private[index]
               THEN [prev EXCEPT !.panic = "slot_private"]
               ELSE [prev EXCEPT !.lc = lc_add(@, coefficient, conv.private[index])]
\* convert_linear_combination with the constant term left out.
convert_linear_combination_without_constant(conv, lc) ==
    convert_terms(conv, lc.terms, Len(lc.terms))
\* convert_linear_combination that adds the constant ahead of the terms.
convert_linear_combination_constant_first(conv, lc) ==
    LET r == convert_terms(conv, lc.terms, Len(lc.terms))
    IN  IF r.panic # "" THEN r
        ELSE IF lc.constant # 0
        THEN [r EXCEPT !.lc = <<[coefficient |-> lc.constant, variable |-> IndexPublic(0)]>> \o @]
        ELSE r

convert_linear_combination(conv, lc) ==
    LET r == convert_terms(conv, lc.terms, Len(lc.terms))
    IN  IF r.panic # "" THEN r
        ELSE IF lc.constant # 0
        THEN [r EXCEPT !.lc = lc_add(@, lc.constant, IndexPublic(0))]
        ELSE r

\* The three sides of a constraint, converted in the order a, b, c.
convert_sides(conv, a, b, c) ==
    LET ra == convert_linear_combination(conv, a)
        rb == convert_linear_combination(conv, b)
        rc == convert_linear_combination(conv, c)
    IN  [panic |-> IF ra.panic # "" THEN ra.panic
                   ELSE IF rb.panic # "" THEN rb.panic ELSE rc.panic,
         a |-> ra.lc, b |-> rb.lc, c |-> rc.lc]

(* ------------------ source circuit and construction -------------------- *)
\* crate::Variable: Constant(value) | Public(index, value) | Private(index, value).
Variable_Constant(value) == [tag |-> "Variable::Constant", value |-> value]
Variable_Public(index, value) == [tag |-> "Variable::Public", index |-> index, value |-> value]
Variable_Private(index, value) == [tag |-> "Variable::Private", index |-> index, value |-> value]

\* crate::LinearCombination: to_constant() and to_terms(), the latter the
\* sequence of its (variable, coefficient) pairs.
LinearCombination(constant, terms) == [constant |-> constant, terms |-> terms]

\* crate::R1CS: what to_public_variables(), to_private_variables(),
\* to_constraints(), to_lookup_tables() and to_lookup_constraints() return.
R1CS(pub, priv, cons, tabs, lcons) ==
    [public |-> pub, private |-> priv, constraints |-> cons,
     tables |-> tabs, lookup_constraints |-> lcons]

\* From<&crate::Variable> for AssignmentVariable.
from_variable(variable) ==
    CASE variable.tag = "Variable::Constant" -> Constant(variable.value)
      [] variable.tag = "Variable::Public" -> Public(variable.index)
      [] variable.tag = "Variable::Private" -> Private(variable.index)

\* IndexMap's FromIterator over the first n (key, value) pairs: a new key is
\* appended, a key seen before keeps its position and takes the new value.
RECURSIVE from_iter(_, _)
from_iter(pairs, n) ==
    IF n = 0 THEN <<>>
    ELSE LET m == from_iter(pairs, n - 1)
             k == pairs[n][1]
             v == pairs[n][2]
         IN  IF \E j \in DOMAIN m : m[j][1] = k
             THEN [j \in DOMAIN m |-> IF m[j][1] = k THEN <<k, v>> ELSE m[j]]
             ELSE Append(m, <<k, v>>)

\* From<&crate::LinearCombination> for AssignmentLC.
from_linear_combination(lc) ==
    LET pairs == [j \in DOMAIN lc.terms |->
                     <<from_variable(lc.terms[j][1]), lc.terms[j][2]>>]
        m == from_iter(pairs, Len(pairs))
    IN  AssignmentLC(lc.constant, [j \in DOMAIN m |-> Term(m[j][1], m[j][2])])

\* The IndexMap<Index, F> collected from (variable.index(), variable.value()).
from_variables(variables) ==
    LET pairs == [j \in DOMAIN variables |-> <<variables[j].index, variables[j].value>>]
        m == from_iter(pairs, Len(pairs))
    IN  [j \in DOMAIN m |-> Entry(m[j][1], m[j][2])]
\* From<crate::R1CS> that numbers the keys of its maps from one.
from_r1cs_one_based(r) ==
    LET shifted(variables) ==
            [j \in DOMAIN variables |->
                [variables[j] EXCEPT !.index = variables[j].index + 1]]
    IN  Assignment(from_variables(shifted(r.public)), from_variables(shifted(r.private)),
                   [k \in DOMAIN r.constraints |->
                       <<from_linear_combination(r.constraints[k][1]),
                         from_linear_combination(r.constraints[k][2]),
                         from_linear_combination(r.constraints[k][3])>>],
                   r.tables,
                   [k \in DOMAIN r.lookup_constraints |->
                       <<from_linear_combination(r.lookup_constraints[k][1]),
                         from_linear_combination(r.lookup_constraints[k][2]),
                         from_linear_combination(r.lookup_constraints[k][3]),
                         r.lookup_constraints[k][4]>>])

\* From<crate::R1CS> for Assignment.
from_r1cs(r) ==
    Assignment(from_variables(r.public), from_variables(r.private),
               [k \in DOMAIN r.constraints |->
                   <<from_linear_combination(r.constraints[k][1]),
                     from_linear_combination(r.constraints[k][2]),
                     from_linear_combination(r.constraints[k][3])>>],
               r.tables,
               [k \in DOMAIN r.lookup_constraints |->
                   <<from_linear_combination(r.lookup_constraints[k][1]),
                     from_linear_combination(r.lookup_constraints[k][2]),
                     from_linear_combination(r.lookup_constraints[k][3]),
                     r.lookup_constraints[k][4]>>])

\* Assignment::num_nonzeros: the fold over the constraints chained with the
\* lookup constraints, here over the first n of them. The sums of the model
\* stay far below u64::MAX, where saturating_add is the addition.
RECURSIVE fold_nonzeros(_, _)
fold_nonzeros(chain, n) ==
    IF n = 0 THEN <<0, 0, 0>>
    ELSE LET acc == fold_nonzeros(chain, n - 1)
         IN  <<acc[1] + num_nonzeros(chain[n][1]),
               acc[2] + num_nonzeros(chain[n][2]),
               acc[3] + num_nonzeros(chain[n][3])>>

Assignment_num_nonzeros(a) ==
    LET chain == a.constraints
                 \o [k \in DOMAIN a.lookup_constraints |->
                        SubSeq(a.lookup_constraints[k], 1, 3)]
    IN  fold_nonzeros(chain, Len(chain))

\* Source circuits: p public variables of value x and r private variables of
\* value w, numbered in allocation order; linear combinations over the first
\* variable of each kind, when there is one.
SourceOne == LinearCombination(1, <<>>)

SourceLCs(p, r, x, w) ==
    {LinearCombination(k, <<>>) : k \in {0, 1}}
    \cup {LinearCombination(k, <<<<Variable_Public(0, x), 1>>>>) :
            k \in IF p >= 1 THEN {0, 1} ELSE {}}
    \cup {LinearCombination(k, <<<<Variable_Private(0, w), 1>>>>) :
            k \in IF r >= 1 THEN {0, 1} ELSE {}}
    \cup {LinearCombination(k, <<<<Variable_Private(0, w), 1>>,
                                 <<Variable_Public(0, x), FieldSize - 1>>>>) :
            k \in IF p >= 1 /\ r >= 1 THEN {0, 1} ELSE {}}

R1CSs ==
    UNION {
      {R1CS([i \in 1..p |-> Variable_Public(i - 1, v)],
            [i \in 1..r |-> Variable_Private(i - 1, v)],
            cons,
            IF n = 0 THEN <<>> ELSE <<{<<1, 1, 1>>}>>,
            [k \in 1..n |-> <<SourceOne, SourceOne, SourceOne, 0>>]) :
         cons \in SeqsUpTo({<<a, SourceOne, a>> : a \in SourceLCs(p, r, v, v)}, MaxCons),
         n \in 0..MaxCons} :
      p \in 0..MaxVars, r \in 0..MaxVars, v \in F}

(* ------------------------------ state ---------------------------------- *)
VARIABLES
    r1cs,       \* the source R1CS the Assignment X is built from, if it is
    nonzeros,   \* what Assignment::num_nonzeros returned, once it was called
    base,       \* the Assignment X; the shared Arc<Assignment> of every instance
    active,     \* the calls that run in this behaviour
    inst,       \* per call: None (X itself is synthesized) or a SameCircuitAssignment
    another,    \* per call: the Assignment handed to create_with_base, if one was
    given,      \* per call: the target system as handed to generate_constraints
    pc,         \* per call: where the call stands
    idx,        \* per call: the loop counter i of the running loop
    cs,         \* per call: the target system
    converter,  \* per call: the Converter
    outcome,    \* per call: how the call ended
    trace       \* per call: the calls made on the target so far

vars == <<r1cs, nonzeros, base, active, inst, another, given, pc, idx, cs, converter, outcome, trace>>

NoOutcome == [kind |-> "None", at |-> ""]

\* The local state of one call, and its write-back.
Local(c) ==
    [pc |-> pc[c], i |-> idx[c], cs |-> cs[c], converter |-> converter[c],
     outcome |-> outcome[c], trace |-> trace[c]]

Set(c, L) ==
    /\ pc' = [pc EXCEPT ![c] = L.pc]
    /\ idx' = [idx EXCEPT ![c] = L.i]
    /\ cs' = [cs EXCEPT ![c] = L.cs]
    /\ converter' = [converter EXCEPT ![c] = L.converter]
    /\ outcome' = [outcome EXCEPT ![c] = L.outcome]
    /\ trace' = [trace EXCEPT ![c] = L.trace]

\* A failed assert!/assert_eq!/unwrap/unreachable!: the call never returns.
Panic(L, at) == [L EXCEPT !.pc = "done", !.outcome = [kind |-> "Panic", at |-> at]]
\* The ? operator on an Err: the call returns the SynthesisError.
Error(L, at) == [L EXCEPT !.pc = "done", !.outcome = [kind |-> "Err", at |-> at]]
\* NextPhase with the tables registered before the constraints are enforced.
NextPhase_tables_first(ph) ==
    CASE ph = "public" -> "private"
      [] ph = "private" -> "tables"
      [] ph = "tables" -> "constraints"
      [] ph = "constraints" -> "lookups"
      [] ph = "lookups" -> "post"

\* Loop control: a loop whose iterator is exhausted falls through to the next.
NextPhase(ph) ==
    CASE ph = "public" -> "private"
      [] ph = "private" -> "constraints"
      [] ph = "constraints" -> "tables"
      [] ph = "tables" -> "lookups"
      [] ph = "lookups" -> "post"

RECURSIVE Advance(_, _)
Advance(L, lens) ==
    IF L.pc \in DOMAIN lens /\ L.i >= lens[L.pc]
    THEN Advance([L EXCEPT !.pc = NextPhase(L.pc), !.i = 0], lens)
    ELSE L

\* The target systems a caller may hand over: fresh ones (one of which refuses
\* every allocation) and ones that already hold a variable or a constraint.
Targets ==
    {NewCS(Unlimited), NewCS(0),
     [NewCS(Unlimited) EXCEPT !.public = <<1, 1>>],
     [NewCS(Unlimited) EXCEPT !.private = <<1>>],
     [NewCS(Unlimited) EXCEPT !.constraints = <<<<lc_zero, lc_zero, lc_zero>>>>]}

(* --------------------- SameCircuitAssignment --------------------------- *)
\* SameCircuitAssignment { variables, base }: base is the variable base.
SameCircuitAssignment(variables) == [variables |-> variables]
\* public_inputs that always defers to base.
public_inputs_of_base(sca, b) == b.public

\* SameCircuitAssignment::public_inputs / private_inputs.
public_inputs(sca, b) ==
    IF sca.variables # None THEN sca.variables.public ELSE b.public

private_inputs(sca, b) ==
    IF sca.variables # None THEN sca.variables.private ELSE b.private

\* SameCircuitAssignment::num_public / num_private.
sca_num_public(sca, b) == Len(public_inputs(sca, b))
sca_num_private(sca, b) == Len(private_inputs(sca, b))
\* create_with_base that compares the public counts only.
create_with_base_public_only(b, y) ==
    IF num_public(b) # num_public(y) THEN None
    ELSE SameCircuitAssignment([public |-> y.public, private |-> y.private])
\* create_with_base without the two assertions on the counts.
create_with_base_unchecked(b, y) ==
    SameCircuitAssignment([public |-> y.public, private |-> y.private])

\* SameCircuitAssignment::create_with_base: the instance, or None when one of
\* the two assert_eq! fails.
create_with_base(b, y) ==
    IF num_public(b) # num_public(y) THEN None
    ELSE IF num_private(b) # num_private(y) THEN None
    ELSE SameCircuitAssignment([public |-> y.public, private |-> y.private])

\* SameCircuitAssignment::single_one.
single_one(b) == SameCircuitAssignment(None)

(* ------------- Assignment::generate_constraints, step by step ---------- *)
\* The iterators of the five loops: their lengths.
A_lens(self) ==
    [public |-> Len(self.public), private |-> Len(self.private),
     constraints |-> Len(self.constraints), tables |-> Len(self.tables),
     lookups |-> Len(self.lookup_constraints)]
\* A_begin that checks the public count only.
A_begin_public_only(self, L) ==
    IF cs_num_public_variables(L.cs) # 1 THEN Panic(L, "clean_public")
    ELSE Advance([L EXCEPT !.pc = "public", !.i = 0, !.converter = NewConverter],
                 A_lens(self))

\* "Ensure the given cs is starting off clean", then the first loop.
A_begin(self, L) ==
    IF cs_num_public_variables(L.cs) # 1 THEN Panic(L, "clean_public")
    ELSE IF cs_num_private_variables(L.cs) # 0 THEN Panic(L, "clean_private")
    ELSE IF cs_num_constraints(L.cs) # 0 THEN Panic(L, "clean_constraints")
    ELSE Advance([L EXCEPT !.pc = "public", !.i = 0, !.converter = NewConverter],
                 A_lens(self))
\* A_alloc_public with the order and slot assertions left out.
A_alloc_public_unchecked(self, L) ==
    LET i == L.i
        index == self.public[i + 1].index
        value == self.public[i + 1].value
        r == cs_alloc_input(L.cs, value)
        called == [L EXCEPT !.trace = Append(@, <<"alloc_input", i>>)]
        stored == [called EXCEPT !.cs = r.cs,
                                 !.converter.public = insert(@, index, r.variable)]
    IN  IF r.err THEN Error(called, "alloc_input")
        ELSE Advance([stored EXCEPT !.i = i + 1], A_lens(self))

\* One iteration of "Allocate the public variables".
A_alloc_public(self, L) ==
    LET i == L.i
        index == self.public[i + 1].index
        value == self.public[i + 1].value
        r == cs_alloc_input(L.cs, value)
        called == [L EXCEPT !.trace = Append(@, <<"alloc_input", i>>)]
        result == index \in DOMAIN L.converter.public
        stored == [called EXCEPT !.cs = r.cs,
                                 !.converter.public = insert(@, index, r.variable)]
    IN  IF i # index THEN Panic(L, "public_order")
        ELSE IF r.err THEN Error(called, "alloc_input")
        ELSE IF IndexPublic(index + 1) # r.variable
        THEN Panic([called EXCEPT !.cs = r.cs], "public_slot")
        ELSE IF result THEN Panic(stored, "public_overwrite")
        ELSE Advance([stored EXCEPT !.i = i + 1], A_lens(self))
\* A_alloc_private that unwraps the allocation instead of returning its error.
A_alloc_private_unwrap(self, L) ==
    LET i == L.i
        index == self.private[i + 1].index
        value == self.private[i + 1].value
        r == cs_alloc(L.cs, value)
        called == [L EXCEPT !.trace = Append(@, <<"alloc", i>>)]
        result == index \in DOMAIN L.converter.private
        stored == [called EXCEPT !.cs = r.cs,
                                 !.converter.private = insert(@, index, r.variable)]
    IN  IF i # index THEN Panic(L, "private_order")
        ELSE IF r.err THEN Panic(called, "alloc")
        ELSE IF IndexPrivate(i) # r.variable
        THEN Panic([called EXCEPT !.cs = r.cs], "private_slot")
        ELSE IF result THEN Panic(stored, "private_overwrite")
        ELSE Advance([stored EXCEPT !.i = i + 1], A_lens(self))
\* A_alloc_private that records the variable under the key after its own.
A_alloc_private_shifted(self, L) ==
    LET i == L.i
        index == self.private[i + 1].index
        value == self.private[i + 1].value
        r == cs_alloc(L.cs, value)
        called == [L EXCEPT !.trace = Append(@, <<"alloc", i>>)]
        result == index + 1 \in DOMAIN L.converter.private
        stored == [called EXCEPT !.cs = r.cs,
                                 !.converter.private = insert(@, index + 1, r.variable)]
    IN  IF i # index THEN Panic(L, "private_order")
        ELSE IF r.err THEN Error(called, "alloc")
        ELSE IF IndexPrivate(i) # r.variable
        THEN Panic([called EXCEPT !.cs = r.cs], "private_slot")
        ELSE IF result THEN Panic(stored, "private_overwrite")
        ELSE Advance([stored EXCEPT !.i = i + 1], A_lens(self))

\* One iteration of "Allocate the private variables".
A_alloc_private(self, L) ==
    LET i == L.i
        index == self.private[i + 1].index
        value == self.private[i + 1].value
        r == cs_alloc(L.cs, value)
        called == [L EXCEPT !.trace = Append(@, <<"alloc", i>>)]
        result == index \in DOMAIN L.converter.private
        stored == [called EXCEPT !.cs = r.cs,
                                 !.converter.private = insert(@, index, r.variable)]
    IN  IF i # index THEN Panic(L, "private_order")
        ELSE IF r.err THEN Error(called, "alloc")
        ELSE IF IndexPrivate(i) # r.variable
        THEN Panic([called EXCEPT !.cs = r.cs], "private_slot")
        ELSE IF result THEN Panic(stored, "private_overwrite")
        ELSE Advance([stored EXCEPT !.i = i + 1], A_lens(self))
\* A_enforce that passes over a constraint it cannot convert.
A_enforce_skipping(self, L) ==
    LET i == L.i
        t == self.constraints[i + 1]
        s == convert_sides(L.converter, t[1], t[2], t[3])
    IN  IF s.panic # "" THEN Advance([L EXCEPT !.i = i + 1], A_lens(self))
        ELSE Advance([L EXCEPT !.cs = cs_enforce(@, s.a, s.b, s.c),
                               !.trace = Append(@, <<"enforce", i>>),
                               !.i = i + 1], A_lens(self))

\* One iteration of "Enforce all of the constraints".
A_enforce(self, L) ==
    LET i == L.i
        t == self.constraints[i + 1]
        s == convert_sides(L.converter, t[1], t[2], t[3])
    IN  IF s.panic # "" THEN Panic(L, s.panic)
        ELSE Advance([L EXCEPT !.cs = cs_enforce(@, s.a, s.b, s.c),
                               !.trace = Append(@, <<"enforce", i>>),
                               !.i = i + 1], A_lens(self))
\* A_add_lookup_table that registers the table ahead of the ones before it.
A_add_lookup_table_prepending(self, L) ==
    LET i == L.i
    IN  Advance([L EXCEPT !.cs.tables = <<self.tables[i + 1]>> \o @,
                          !.trace = Append(@, <<"add_lookup_table", i>>),
                          !.i = i + 1], A_lens(self))

\* One iteration of "Add the lookup tables".
A_add_lookup_table(self, L) ==
    LET i == L.i
    IN  Advance([L EXCEPT !.cs = cs_add_lookup_table(@, self.tables[i + 1]),
                          !.trace = Append(@, <<"add_lookup_table", i>>),
                          !.i = i + 1], A_lens(self))
\* A_enforce_lookup with a local assertion on the table index.
A_enforce_lookup_asserting(self, L) ==
    LET i == L.i
        t == self.lookup_constraints[i + 1]
        s == convert_sides(L.converter, t[1], t[2], t[3])
        r == cs_enforce_lookup(L.cs, s.a, s.b, s.c, t[4])
        called == [L EXCEPT !.trace = Append(@, <<"enforce_lookup", i>>)]
    IN  IF s.panic # "" THEN Panic(L, s.panic)
        ELSE IF t[4] >= Len(self.tables) THEN Panic(L, "table_index")
        ELSE IF r.err THEN Error(called, "enforce_lookup")
        ELSE Advance([called EXCEPT !.cs = r.cs, !.i = i + 1], A_lens(self))

\* A_enforce_lookup that hands back an emptied target with the error.
A_enforce_lookup_rollback(self, L) ==
    LET i == L.i
        t == self.lookup_constraints[i + 1]
        s == convert_sides(L.converter, t[1], t[2], t[3])
        r == cs_enforce_lookup(L.cs, s.a, s.b, s.c, t[4])
        called == [L EXCEPT !.trace = Append(@, <<"enforce_lookup", i>>)]
    IN  IF s.panic # "" THEN Panic(L, s.panic)
        ELSE IF r.err THEN Error([called EXCEPT !.cs = NewCS(@.capacity)], "enforce_lookup")
        ELSE Advance([called EXCEPT !.cs = r.cs, !.i = i + 1], A_lens(self))

\* One iteration of "Enforce all of the lookup constraints". The target runs
\* the three closures, which convert the sides, before it looks at the table.
A_enforce_lookup(self, L) ==
    LET i == L.i
        t == self.lookup_constraints[i + 1]
        s == convert_sides(L.converter, t[1], t[2], t[3])
        r == cs_enforce_lookup(L.cs, s.a, s.b, s.c, t[4])
        called == [L EXCEPT !.trace = Append(@, <<"enforce_lookup", i>>)]
    IN  IF s.panic # "" THEN Panic(L, s.panic)
        ELSE IF r.err THEN Error(called, "enforce_lookup")
        ELSE Advance([called EXCEPT !.cs = r.cs, !.i = i + 1], A_lens(self))
\* A_post with the constraint count compared against num_constraints alone.
A_post_without_lookups(self, L) ==
    IF num_public(self) + 1 # cs_num_public_variables(L.cs) THEN Panic(L, "post_public")
    ELSE IF num_private(self) # cs_num_private_variables(L.cs) THEN Panic(L, "post_private")
    ELSE IF num_constraints(self) # cs_num_constraints(L.cs)
    THEN Panic(L, "post_constraints")
    ELSE [L EXCEPT !.pc = "done", !.outcome = [kind |-> "Ok", at |-> ""]]

\* "Ensure the given cs matches in size with the first system", then Ok(()).
A_post(self, L) ==
    IF num_public(self) + 1 # cs_num_public_variables(L.cs) THEN Panic(L, "post_public")
    ELSE IF num_private(self) # cs_num_private_variables(L.cs) THEN Panic(L, "post_private")
    ELSE IF num_constraints(self) + num_lookup_constraints(self) # cs_num_constraints(L.cs)
    THEN Panic(L, "post_constraints")
    ELSE [L EXCEPT !.pc = "done", !.outcome = [kind |-> "Ok", at |-> ""]]

(* ------- SameCircuitAssignment::generate_constraints, step by step ----- *)
\* The iterators of the five loops: their lengths.
S_lens(self, b) ==
    [public |-> Len(public_inputs(self, b)), private |-> Len(private_inputs(self, b)),
     constraints |-> Len(b.constraints), tables |-> Len(b.tables),
     lookups |-> Len(b.lookup_constraints)]

\* "Ensure the given cs is starting off clean", then the first loop.
S_begin(self, b, L) ==
    IF cs_num_public_variables(L.cs) # 1 THEN Panic(L, "clean_public")
    ELSE IF cs_num_private_variables(L.cs) # 0 THEN Panic(L, "clean_private")
    ELSE IF cs_num_constraints(L.cs) # 0 THEN Panic(L, "clean_constraints")
    ELSE Advance([L EXCEPT !.pc = "public", !.i = 0, !.converter = NewConverter],
                 S_lens(self, b))
\* S_alloc_public without the assertion on the order of the keys.
S_alloc_public_unordered(self, b, L) ==
    LET i == L.i
        index == public_inputs(self, b)[i + 1].index
        value == public_inputs(self, b)[i + 1].value
        r == cs_alloc_input(L.cs, value)
        called == [L EXCEPT !.trace = Append(@, <<"alloc_input", i>>)]
        result == index \in DOMAIN L.converter.public
        stored == [called EXCEPT !.cs = r.cs,
                                 !.converter.public = insert(@, index, r.variable)]
    IN  IF r.err THEN Error(called, "alloc_input")
        ELSE IF IndexPublic(index + 1) # r.variable
        THEN Panic([called EXCEPT !.cs = r.cs], "public_slot")
        ELSE IF result THEN Panic(stored, "public_overwrite")
        ELSE Advance([stored EXCEPT !.i = i + 1], S_lens(self, b))

\* One iteration of "Allocate the public variables".
S_alloc_public(self, b, L) ==
    LET i == L.i
        index == public_inputs(self, b)[i + 1].index
        value == public_inputs(self, b)[i + 1].value
        r == cs_alloc_input(L.cs, value)
        called == [L EXCEPT !.trace = Append(@, <<"alloc_input", i>>)]
        result == index \in DOMAIN L.converter.public
        stored == [called EXCEPT !.cs = r.cs,
                                 !.converter.public = insert(@, index, r.variable)]
    IN  IF i # index THEN Panic(L, "public_order")
        ELSE IF r.err THEN Error(called, "alloc_input")
        ELSE IF IndexPublic(index + 1) # r.variable
        THEN Panic([called EXCEPT !.cs = r.cs], "public_slot")
        ELSE IF result THEN Panic(stored, "public_overwrite")
        ELSE Advance([stored EXCEPT !.i = i + 1], S_lens(self, b))
\* S_alloc_private that reads the private map of the base.
S_alloc_private_of_base(self, b, L) ==
    LET i == L.i
        index == b.private[i + 1].index
        value == b.private[i + 1].value
        r == cs_alloc(L.cs, value)
        called == [L EXCEPT !.trace = Append(@, <<"alloc", i>>)]
        result == index \in DOMAIN L.converter.private
        stored == [called EXCEPT !.cs = r.cs,
                                 !.converter.private = insert(@, index, r.variable)]
    IN  IF i # index THEN Panic(L, "private_order")
        ELSE IF r.err THEN Error(called, "alloc")
        ELSE IF IndexPrivate(i) # r.variable
        THEN Panic([called EXCEPT !.cs = r.cs], "private_slot")
        ELSE IF result THEN Panic(stored, "private_overwrite")
        ELSE Advance([stored EXCEPT !.i = i + 1], S_lens(self, b))

\* One iteration of "Allocate the private variables".
S_alloc_private(self, b, L) ==
    LET i == L.i
        index == private_inputs(self, b)[i + 1].index
        value == private_inputs(self, b)[i + 1].value
        r == cs_alloc(L.cs, value)
        called == [L EXCEPT !.trace = Append(@, <<"alloc", i>>)]
        result == index \in DOMAIN L.converter.private
        stored == [called EXCEPT !.cs = r.cs,
                                 !.converter.private = insert(@, index, r.variable)]
    IN  IF i # index THEN Panic(L, "private_order")
        ELSE IF r.err THEN Error(called, "alloc")
        ELSE IF IndexPrivate(i) # r.variable
        THEN Panic([called EXCEPT !.cs = r.cs], "private_slot")
        ELSE IF result THEN Panic(stored, "private_overwrite")
        ELSE Advance([stored EXCEPT !.i = i + 1], S_lens(self, b))

\* One iteration of "Enforce all of the constraints".
S_enforce(self, b, L) ==
    LET i == L.i
        t == b.constraints[i + 1]
        s == convert_sides(L.converter, t[1], t[2], t[3])
    IN  IF s.panic # "" THEN Panic(L, s.panic)
        ELSE Advance([L EXCEPT !.cs = cs_enforce(@, s.a, s.b, s.c),
                               !.trace = Append(@, <<"enforce", i>>),
                               !.i = i + 1], S_lens(self, b))

\* One iteration of "Add the lookup tables".
S_add_lookup_table(self, b, L) ==
    LET i == L.i
    IN  Advance([L EXCEPT !.cs = cs_add_lookup_table(@, b.tables[i + 1]),
                          !.trace = Append(@, <<"add_lookup_table", i>>),
                          !.i = i + 1], S_lens(self, b))

\* One iteration of "Enforce all of the lookup constraints". The target runs
\* the three closures, which convert the sides, before it looks at the table.
S_enforce_lookup(self, b, L) ==
    LET i == L.i
        t == b.lookup_constraints[i + 1]
        s == convert_sides(L.converter, t[1], t[2], t[3])
        r == cs_enforce_lookup(L.cs, s.a, s.b, s.c, t[4])
        called == [L EXCEPT !.trace = Append(@, <<"enforce_lookup", i>>)]
    IN  IF s.panic # "" THEN Panic(L, s.panic)
        ELSE IF r.err THEN Error(called, "enforce_lookup")
        ELSE Advance([called EXCEPT !.cs = r.cs, !.i = i + 1], S_lens(self, b))

\* "Ensure the given cs matches in size with the first system", then Ok(()).
S_post(self, b, L) ==
    IF sca_num_public(self, b) + 1 # cs_num_public_variables(L.cs) THEN Panic(L, "post_public")
    ELSE IF sca_num_private(self, b) # cs_num_private_variables(L.cs) THEN Panic(L, "post_private")
    ELSE IF num_constraints(b) + num_lookup_constraints(b) # cs_num_constraints(L.cs)
    THEN Panic(L, "post_constraints")
    ELSE [L EXCEPT !.pc = "done", !.outcome = [kind |-> "Ok", at |-> ""]]

(* ------------------------------ actions -------------------------------- *)
Running(c, ph) == c \in active /\ pc[c] = ph

\* SameCircuitAssignment::single_one(X).
SingleOne(c) ==
    /\ Running(c, "idle")
    /\ inst' = [inst EXCEPT ![c] = single_one(base)]
    /\ pc' = [pc EXCEPT ![c] = "built"]
    /\ UNCHANGED <<r1cs, nonzeros, base, active, another, given, idx, cs, converter, outcome, trace>>

\* SameCircuitAssignment::create_with_base(X, Y), Y any second Assignment.
CreateWithBase(c) ==
    /\ Running(c, "idle")
    /\ \E y \in Others :
         LET r == create_with_base(base, y)
         IN  /\ another' = [another EXCEPT ![c] = y]
             /\ IF r = None
                THEN /\ pc' = [pc EXCEPT ![c] = "done"]
                     /\ outcome' = [outcome EXCEPT ![c] = [kind |-> "Panic", at |-> "create"]]
                     /\ inst' = inst
                ELSE /\ pc' = [pc EXCEPT ![c] = "built"]
                     /\ outcome' = outcome
                     /\ inst' = [inst EXCEPT ![c] = r]
    /\ UNCHANGED <<r1cs, nonzeros, base, active, given, idx, cs, converter, trace>>

\* A_Begin that hands over the target the call before it has left behind.
A_Begin_on_used_target(c) ==
    /\ Running(c, "idle")
    /\ \E t \in Targets :
         /\ given' = [given EXCEPT ![c] = t]
         /\ Set(c, A_begin(base, [Local(c) EXCEPT
                                    !.cs = IF c > 1 /\ cs[c - 1] # None
                                           THEN cs[c - 1] ELSE t]))
    /\ UNCHANGED <<r1cs, nonzeros, base, active, inst, another>>

\* Assignment::generate_constraints(&X, cs) is entered with some target.
A_Begin(c) ==
    /\ Running(c, "idle")
    /\ \E t \in Targets :
         /\ given' = [given EXCEPT ![c] = t]
         /\ Set(c, A_begin(base, [Local(c) EXCEPT !.cs = t]))
    /\ UNCHANGED <<r1cs, nonzeros, base, active, inst, another>>

A_AllocPublic(c) ==
    /\ Running(c, "public") /\ inst[c] = None
    /\ Set(c, A_alloc_public(base, Local(c)))
    /\ UNCHANGED <<r1cs, nonzeros, base, active, inst, another, given>>

A_AllocPrivate(c) ==
    /\ Running(c, "private") /\ inst[c] = None
    /\ Set(c, A_alloc_private(base, Local(c)))
    /\ UNCHANGED <<r1cs, nonzeros, base, active, inst, another, given>>

A_Enforce(c) ==
    /\ Running(c, "constraints") /\ inst[c] = None
    /\ Set(c, A_enforce(base, Local(c)))
    /\ UNCHANGED <<r1cs, nonzeros, base, active, inst, another, given>>

A_AddLookupTable(c) ==
    /\ Running(c, "tables") /\ inst[c] = None
    /\ Set(c, A_add_lookup_table(base, Local(c)))
    /\ UNCHANGED <<r1cs, nonzeros, base, active, inst, another, given>>

A_EnforceLookup(c) ==
    /\ Running(c, "lookups") /\ inst[c] = None
    /\ Set(c, A_enforce_lookup(base, Local(c)))
    /\ UNCHANGED <<r1cs, nonzeros, base, active, inst, another, given>>

A_Post(c) ==
    /\ Running(c, "post") /\ inst[c] = None
    /\ Set(c, A_post(base, Local(c)))
    /\ UNCHANGED <<r1cs, nonzeros, base, active, inst, another, given>>

\* SameCircuitAssignment::generate_constraints(&self, cs) is entered.
S_Begin(c) ==
    /\ Running(c, "built")
    /\ \E t \in Targets :
         /\ given' = [given EXCEPT ![c] = t]
         /\ Set(c, S_begin(inst[c], base, [Local(c) EXCEPT !.cs = t]))
    /\ UNCHANGED <<r1cs, nonzeros, base, active, inst, another>>

S_AllocPublic(c) ==
    /\ Running(c, "public") /\ inst[c] # None
    /\ Set(c, S_alloc_public(inst[c], base, Local(c)))
    /\ UNCHANGED <<r1cs, nonzeros, base, active, inst, another, given>>

S_AllocPrivate(c) ==
    /\ Running(c, "private") /\ inst[c] # None
    /\ Set(c, S_alloc_private(inst[c], base, Local(c)))
    /\ UNCHANGED <<r1cs, nonzeros, base, active, inst, another, given>>
\* S_Enforce that converts with the Converter of call 1, as if the table
\* were shared by the calls.
S_Enforce_shared_converter(c) ==
    /\ Running(c, "constraints") /\ inst[c] # None
    /\ Set(c, S_enforce(inst[c], base, [Local(c) EXCEPT !.converter = converter[1]]))
    /\ UNCHANGED <<r1cs, nonzeros, base, active, inst, another, given>>

S_Enforce(c) ==
    /\ Running(c, "constraints") /\ inst[c] # None
    /\ Set(c, S_enforce(inst[c], base, Local(c)))
    /\ UNCHANGED <<r1cs, nonzeros, base, active, inst, another, given>>

S_AddLookupTable(c) ==
    /\ Running(c, "tables") /\ inst[c] # None
    /\ Set(c, S_add_lookup_table(inst[c], base, Local(c)))
    /\ UNCHANGED <<r1cs, nonzeros, base, active, inst, another, given>>

S_EnforceLookup(c) ==
    /\ Running(c, "lookups") /\ inst[c] # None
    /\ Set(c, S_enforce_lookup(inst[c], base, Local(c)))
    /\ UNCHANGED <<r1cs, nonzeros, base, active, inst, another, given>>

S_Post(c) ==
    /\ Running(c, "post") /\ inst[c] # None
    /\ Set(c, S_post(inst[c], base, Local(c)))
    /\ UNCHANGED <<r1cs, nonzeros, base, active, inst, another, given>>

(* --------------------------- specifications ---------------------------- *)
Blank ==
    /\ inst = [c \in Calls |-> None]
    /\ another = [c \in Calls |-> None]
    /\ given = [c \in Calls |-> None]
    /\ pc = [c \in Calls |-> "idle"]
    /\ idx = [c \in Calls |-> 0]
    /\ cs = [c \in Calls |-> None]
    /\ converter = [c \in Calls |-> NewConverter]
    /\ outcome = [c \in Calls |-> NoOutcome]
    /\ trace = [c \in Calls |-> <<>>]

\* One call at a time, on any assignment.
Init ==
    /\ r1cs = None /\ nonzeros = None
    /\ base \in Assignments
    /\ active = {1}
    /\ Blank

Next ==
    \E c \in Calls :
        \/ SingleOne(c)
        \/ CreateWithBase(c)
        \/ A_Begin(c)
        \/ A_AllocPublic(c)
        \/ A_AllocPrivate(c)
        \/ A_Enforce(c)
        \/ A_AddLookupTable(c)
        \/ A_EnforceLookup(c)
        \/ A_Post(c)
        \/ S_Begin(c)
        \/ S_AllocPublic(c)
        \/ S_AllocPrivate(c)
        \/ S_Enforce(c)
        \/ S_AddLookupTable(c)
        \/ S_EnforceLookup(c)
        \/ S_Post(c)

Spec == Init /\ [][Next]_vars

(* ----------------- what a call was given, for the claims --------------- *)
\* SameCircuitAssignment::generate_constraints run from entry to return on the
\* target t, with no other call in between.
S_step(self, b, L) ==
    CASE L.pc = "public" -> S_alloc_public(self, b, L)
      [] L.pc = "private" -> S_alloc_private(self, b, L)
      [] L.pc = "constraints" -> S_enforce(self, b, L)
      [] L.pc = "tables" -> S_add_lookup_table(self, b, L)
      [] L.pc = "lookups" -> S_enforce_lookup(self, b, L)
      [] L.pc = "post" -> S_post(self, b, L)

RECURSIVE S_run(_, _, _)
S_run(self, b, L) ==
    IF L.pc = "done" THEN L ELSE S_run(self, b, S_step(self, b, L))

S_generate_constraints(self, b, t) ==
    S_run(self, b, S_begin(self, b, [pc |-> "built", i |-> 0, cs |-> t,
                                     converter |-> NewConverter,
                                     outcome |-> NoOutcome, trace |-> <<>>]))

\* Bases of the parallel runs: MaxVars variables of each kind, MaxCons copies of
\* one constraint, of one table and of one lookup constraint.
ParBase(con, t) ==
    Assignment(MapOf(Ascending(MaxVars), Uniform(MaxVars, 1)),
               MapOf(Ascending(MaxVars), Uniform(MaxVars, 1)),
               [k \in 1..MaxCons |-> con],
               [k \in 1..MaxCons |-> {<<0, 0, 0>>, <<1, 1, 1>>}],
               [k \in 1..MaxCons |-> <<One, One, One, t>>])

ParBases ==
    {ParBase(<<Priv0, One, Priv0>>, 0), ParBase(<<Priv0, One, Priv0>>, MaxCons),
     ParBase(<<AssignmentLC(0, <<Term(Constant(1), 1)>>), One, One>>, 0)}

ParOthers ==
    {OtherStructure(MapOf(Ascending(MaxVars), Uniform(MaxVars, v)),
                    MapOf(Ascending(MaxVars), Uniform(MaxVars, v))) : v \in F}

\* Every call holds an instance over the one shared base, built by single_one
\* or by create_with_base, and the calls run side by side.
InitPar ==
    /\ r1cs = None /\ nonzeros = None
    /\ base \in ParBases
    /\ active = Calls
    /\ another \in [Calls -> {None} \cup ParOthers]
    /\ inst = [c \in Calls |-> IF another[c] = None THEN single_one(base)
                               ELSE create_with_base(base, another[c])]
    /\ given = [c \in Calls |-> None]
    /\ pc = [c \in Calls |-> "built"]
    /\ idx = [c \in Calls |-> 0]
    /\ cs = [c \in Calls |-> None]
    /\ converter = [c \in Calls |-> NewConverter]
    /\ outcome = [c \in Calls |-> NoOutcome]
    /\ trace = [c \in Calls |-> <<>>]

NextPar ==
    \E c \in Calls :
        \/ S_Begin(c)
        \/ S_AllocPublic(c)
        \/ S_AllocPrivate(c)
        \/ S_Enforce(c)
        \/ S_AddLookupTable(c)
        \/ S_EnforceLookup(c)
        \/ S_Post(c)

SpecPar == InitPar /\ [][NextPar]_vars

\* Assignment::generate_constraints run from entry to return on the target t.
A_step(self, L) ==
    CASE L.pc = "public" -> A_alloc_public(self, L)
      [] L.pc = "private" -> A_alloc_private(self, L)
      [] L.pc = "constraints" -> A_enforce(self, L)
      [] L.pc = "tables" -> A_add_lookup_table(self, L)
      [] L.pc = "lookups" -> A_enforce_lookup(self, L)
      [] L.pc = "post" -> A_post(self, L)

RECURSIVE A_run(_, _)
A_run(self, L) ==
    IF L.pc = "done" THEN L ELSE A_run(self, A_step(self, L))

A_generate_constraints(self, t) ==
    A_run(self, A_begin(self, [pc |-> "idle", i |-> 0, cs |-> t,
                               converter |-> NewConverter,
                               outcome |-> NoOutcome, trace |-> <<>>]))

\* Assignments synthesized more than once: every key order, the bases of the
\* parallel runs, and one public and one private variable of any value under
\* a constraint a * 1 = c.
TwiceBases ==
    KeyVariants \cup ParBases
    \cup {a \in ValueVariants : a.constraints[1][2] = One}

\* One Assignment, synthesized by one call after the other, each call into a
\* target handed to it alone.
InitTwice ==
    /\ r1cs = None /\ nonzeros = None
    /\ base \in TwiceBases
    /\ active = Calls
    /\ Blank

\* A call is entered once the calls before it have ended.
NextTwice ==
    \E c \in Calls :
        \/ (\A d \in Calls : d < c => pc[d] = "done") /\ A_Begin(c)
        \/ A_AllocPublic(c)
        \/ A_AllocPrivate(c)
        \/ A_Enforce(c)
        \/ A_AddLookupTable(c)
        \/ A_EnforceLookup(c)
        \/ A_Post(c)

SpecTwice == InitTwice /\ [][NextTwice]_vars

\* Assignment::from(r1cs).
FromR1CS ==
    /\ base = None
    /\ base' = from_r1cs(r1cs)
    /\ UNCHANGED <<r1cs, nonzeros, active, inst, another, given, pc, idx, cs,
                   converter, outcome, trace>>

\* Assignment::num_nonzeros(&X).
NumNonzeros ==
    /\ base # None /\ nonzeros = None
    /\ nonzeros' = Assignment_num_nonzeros(base)
    /\ UNCHANGED <<r1cs, base, active, inst, another, given, pc, idx, cs,
                   converter, outcome, trace>>

\* A completed source circuit is turned into an Assignment, which is then
\* measured and synthesized.
InitFrom ==
    /\ r1cs \in R1CSs
    /\ nonzeros = None
    /\ base = None
    /\ active = {1}
    /\ Blank

\* A call is entered once the Assignment is built.
NextFrom ==
    \/ FromR1CS
    \/ NumNonzeros
    \/ \E c \in Calls :
          \/ base # None /\ A_Begin(c)
          \/ A_AllocPublic(c)
          \/ A_AllocPrivate(c)
          \/ A_Enforce(c)
          \/ A_AddLookupTable(c)
          \/ A_EnforceLookup(c)
          \/ A_Post(c)

SpecFrom == InitFrom /\ [][NextFrom]_vars

\* The public and private maps a call synthesizes: the second Assignment's
\* when the instance was built by create_with_base, X's otherwise.
Overridden(c) == inst[c] # None /\ another[c] # None
PubOf(c) == IF Overridden(c) THEN another[c].public ELSE base.public
PrivOf(c) == IF Overridden(c) THEN another[c].private ELSE base.private

Done(c) == pc[c] = "done" /\ given[c] # None
Ok(c) == Done(c) /\ outcome[c].kind = "Ok"

\* Keys 0..len-1 in ascending iteration order.
IsAscending(m) == \A k \in DOMAIN m : m[k].index = k - 1

\* The empty state of a target: one public variable, nothing else.
IsFresh(t) ==
    Len(t.public) = 1 /\ Len(t.private) = 0 /\ Len(t.constraints) + Len(t.lookups) = 0

\* Every term of lc names a public index below p or a private index below r.
RefsOk(lc, p, r) ==
    \A k \in DOMAIN lc.terms :
        LET v == lc.terms[k].variable
        IN  \/ v.tag = "Public" /\ v.arg < p
            \/ v.tag = "Private" /\ v.arg < r

StructureOk(c) ==
    /\ \A k \in DOMAIN base.constraints : \A n \in 1..3 :
          RefsOk(base.constraints[k][n], Len(PubOf(c)), Len(PrivOf(c)))
    /\ \A k \in DOMAIN base.lookup_constraints : \A n \in 1..3 :
          RefsOk(base.lookup_constraints[k][n], Len(PubOf(c)), Len(PrivOf(c)))

TablesOk == \A k \in DOMAIN base.lookup_constraints :
                base.lookup_constraints[k][4] < Len(base.tables)

\* The maps are in order, the structure names existing variables only, and the
\* fresh target refuses none of the calls.
Accepted(c) ==
    /\ IsFresh(given[c])
    /\ IsAscending(PubOf(c)) /\ IsAscending(PrivOf(c))
    /\ StructureOk(c)
    /\ given[c].capacity >= Len(PubOf(c)) + Len(PrivOf(c))
    /\ TablesOk

PostAsserts == {"post_public", "post_private", "post_constraints"}

(* ------------------------------- claims -------------------------------- *)
\* C1: with keys 0..len-1 in ascending order and a fresh target whose calls all
\* succeed, generate_constraints returns Ok and leaves the target with P+1
\* public variables, R private variables and K+L constraints; none of the
\* three final assertions ever fails.
C1_RoundTrip ==
    \A c \in Calls :
        Done(c) =>
            /\ outcome[c].at \notin PostAsserts
            /\ Accepted(c) => outcome[c].kind = "Ok"
            /\ outcome[c].kind = "Ok" =>
                  /\ cs_num_public_variables(cs[c]) = Len(PubOf(c)) + 1
                  /\ cs_num_private_variables(cs[c]) = Len(PrivOf(c))
                  /\ cs_num_constraints(cs[c]) =
                        Len(base.constraints) + Len(base.lookup_constraints)

C1_Witness ==
    \E c \in Calls :
        /\ Ok(c) /\ Accepted(c)
        /\ Len(PubOf(c)) >= 1 /\ Len(PrivOf(c)) >= 1
        /\ Len(base.constraints) >= 1 /\ Len(base.lookup_constraints) >= 1

\* C2: every public index i is translated to target public slot i+1, which
\* holds its value, every private index i to target private slot i, which
\* holds its value; no source variable is translated to public slot 0.
C2_IndexAlignment ==
    \A c \in Calls :
        /\ \A k \in DOMAIN converter[c].public :
              /\ converter[c].public[k] = IndexPublic(k + 1)
              /\ \E n \in DOMAIN PubOf(c) :
                    PubOf(c)[n].index = k /\ cs[c].public[k + 2] = PubOf(c)[n].value
        /\ \A k \in DOMAIN converter[c].private :
              /\ converter[c].private[k] = IndexPrivate(k)
              /\ \E n \in DOMAIN PrivOf(c) :
                    PrivOf(c)[n].index = k /\ cs[c].private[k + 1] = PrivOf(c)[n].value
        /\ given[c] # None /\ IsFresh(given[c]) =>
              /\ Len(cs[c].public) = 1 + Cardinality(DOMAIN converter[c].public)
              /\ Len(cs[c].private) = Cardinality(DOMAIN converter[c].private)
              /\ cs[c].public[1] = 1

C2_Witness ==
    \E c \in Calls :
        /\ Ok(c)
        /\ DOMAIN converter[c].public # {} /\ DOMAIN converter[c].private # {}

\* The value the map m holds under key k.
ValueAt(m, k) == m[CHOOSE n \in DOMAIN m : m[n].index = k].value

\* A source linear combination under the call's values: the constant plus the
\* sum of coefficient * value over the first n terms.
RECURSIVE SourceEval(_, _, _)
SourceEval(c, lc, n) ==
    IF n = 0 THEN lc.constant % FieldSize
    ELSE LET v == lc.terms[n].variable
             x == IF v.tag = "Public" THEN ValueAt(PubOf(c), v.arg)
                  ELSE ValueAt(PrivOf(c), v.arg)
         IN  FAdd(SourceEval(c, lc, n - 1), FMul(lc.terms[n].coefficient, x))

SourceValue(c, lc) == SourceEval(c, lc, Len(lc.terms))

\* Every constraint (A, B, C) has A * B = C and every lookup constraint has
\* its row (A, B, C) in its table, under the call's public and private values.
SourceSatisfied(c) ==
    /\ \A k \in DOMAIN base.constraints :
          LET t == base.constraints[k]
          IN  FMul(SourceValue(c, t[1]), SourceValue(c, t[2])) = SourceValue(c, t[3])
    /\ \A k \in DOMAIN base.lookup_constraints :
          LET t == base.lookup_constraints[k]
          IN  <<SourceValue(c, t[1]), SourceValue(c, t[2]), SourceValue(c, t[3])>>
                  \in base.tables[t[4] + 1]

\* C3: synthesis succeeds whatever the values are, and the target it leaves is
\* satisfied exactly when every source constraint holds under the values.
C3_SatisfactionPreserved ==
    \A c \in Calls :
        Done(c) =>
            /\ Accepted(c) => outcome[c].kind = "Ok"
            /\ outcome[c].kind = "Ok" => (cs_is_satisfied(cs[c]) <=> SourceSatisfied(c))

C3_Witness ==
    \E c \in Calls :
        /\ Ok(c) /\ ~SourceSatisfied(c) /\ ~cs_is_satisfied(cs[c])
        /\ Len(base.constraints) >= 1
        /\ \E n \in 1..3 : base.constraints[1][n].terms # <<>> /\ base.constraints[1][n].constant # 0

C3_WitnessSatisfied ==
    \E c \in Calls :
        /\ Ok(c) /\ SourceSatisfied(c) /\ cs_is_satisfied(cs[c])
        /\ Len(base.constraints) >= 1
        /\ \E n \in 1..3 : base.constraints[1][n].terms # <<>> /\ base.constraints[1][n].constant # 0

\* The sides of the k-th constraint (or lookup constraint) of X, converted
\* under the call's converter.
Converted(c, t) ==
    LET s == convert_sides(converter[c], t[1], t[2], t[3]) IN <<s.a, s.b, s.c>>

\* C4: an instance built by create_with_base(X, Y) reports Y's maps and counts
\* and synthesizes Y's values over X's constraints, tables and lookup
\* constraints; one built by single_one(X) takes all of them from X.
C4_SharedStructure ==
    \A c \in Calls :
        inst[c] # None =>
            /\ another[c] # None =>
                  /\ public_inputs(inst[c], base) = another[c].public
                  /\ private_inputs(inst[c], base) = another[c].private
                  /\ sca_num_public(inst[c], base) = num_public(another[c])
                  /\ sca_num_private(inst[c], base) = num_private(another[c])
            /\ another[c] = None =>
                  /\ public_inputs(inst[c], base) = base.public
                  /\ private_inputs(inst[c], base) = base.private
            /\ Ok(c) =>
                  /\ \A n \in DOMAIN PubOf(c) : cs[c].public[n + 1] = PubOf(c)[n].value
                  /\ \A n \in DOMAIN PrivOf(c) : cs[c].private[n] = PrivOf(c)[n].value
                  /\ cs[c].tables = base.tables
                  /\ Len(cs[c].constraints) = Len(base.constraints)
                  /\ \A k \in DOMAIN base.constraints :
                        cs[c].constraints[k] = Converted(c, base.constraints[k])
                  /\ Len(cs[c].lookups) = Len(base.lookup_constraints)
                  /\ \A k \in DOMAIN base.lookup_constraints :
                        cs[c].lookups[k] = Converted(c, base.lookup_constraints[k])
                                              \o <<base.lookup_constraints[k][4]>>

C4_Witness ==
    \E c \in Calls :
        /\ Ok(c) /\ Overridden(c)
        /\ another[c].public # base.public
        /\ another[c].constraints # base.constraints
        /\ Len(base.constraints) >= 1

\* C5: create_with_base(X, Y) fails fatally, and produces no instance, exactly
\* when the public or the private counts of X and Y differ; nothing of Y is
\* retained then, and X is unchanged.
C5_CreateChecksCounts ==
    [][\A c \in Calls :
          (another[c] = None /\ another'[c] # None) =>
              LET y == another'[c]
                  mismatch == \/ num_public(base) # num_public(y)
                              \/ num_private(base) # num_private(y)
              IN  /\ base' = base
                  /\ mismatch =>
                        /\ inst'[c] = None
                        /\ pc'[c] = "done"
                        /\ outcome'[c] = [kind |-> "Panic", at |-> "create"]
                        /\ cs'[c] = None /\ given'[c] = None
                  /\ ~mismatch =>
                        /\ inst'[c] = SameCircuitAssignment(
                                          [public |-> y.public, private |-> y.private])
                        /\ outcome'[c] = NoOutcome]_vars

C5_Witness ==
    \E c \in Calls :
        /\ outcome[c] = [kind |-> "Panic", at |-> "create"]
        /\ num_public(base) = num_public(another[c])
        /\ num_private(base) # num_private(another[c])

\* The call gets as far as the lookup constraints: everything Accepted asks
\* for, but for the table indexes.
ReachesLookups(c) ==
    /\ IsFresh(given[c])
    /\ IsAscending(PubOf(c)) /\ IsAscending(PrivOf(c))
    /\ StructureOk(c)
    /\ given[c].capacity >= Len(PubOf(c)) + Len(PrivOf(c))

\* C6: a lookup constraint whose table_index is beyond the registered tables
\* makes generate_constraints return the error of the target's enforce_lookup
\* call: no local assertion fails and Ok is not returned.
C6_LookupErrorPropagates ==
    \A c \in Calls :
        Done(c) =>
            /\ ReachesLookups(c) /\ ~TablesOk =>
                  outcome[c] = [kind |-> "Err", at |-> "enforce_lookup"]
            /\ outcome[c].at = "enforce_lookup" =>
                  /\ outcome[c].kind = "Err"
                  /\ base.lookup_constraints[idx[c] + 1][4] >= Len(base.tables)
                  /\ \A k \in 1..idx[c] : base.lookup_constraints[k][4] < Len(base.tables)
                  /\ trace[c][Len(trace[c])] = <<"enforce_lookup", idx[c]>>

C6_Witness ==
    \E c \in Calls :
        /\ Done(c) /\ outcome[c] = [kind |-> "Err", at |-> "enforce_lookup"]
        /\ Len(base.tables) >= 1

ReturnedErrors == {"alloc_input", "alloc", "enforce_lookup"}

\* C7 as stated: the lookup enforcement is the only step whose error is
\* returned to the caller.
C7_OnlyLookupErrorReturned ==
    \A c \in Calls : outcome[c].kind = "Err" => outcome[c].at = "enforce_lookup"

\* C7, amended: the steps whose error is returned to the caller are the public
\* allocation, the private allocation and the lookup enforcement, each the
\* last call made on the target; a target that refuses an allocation makes the
\* call return that error, and every other failure is a fatal assertion.
C7_ErrorSurface ==
    \A c \in Calls :
        Done(c) =>
            /\ outcome[c].kind = "Err" =>
                  /\ outcome[c].at \in ReturnedErrors
                  /\ trace[c] # <<>> /\ trace[c][Len(trace[c])][1] = outcome[c].at
            /\ outcome[c].kind = "Panic" => outcome[c].at \notin ReturnedErrors
            /\ ( /\ IsFresh(given[c])
                 /\ IsAscending(PubOf(c)) /\ IsAscending(PrivOf(c))
                 /\ given[c].capacity < Len(PubOf(c)) + Len(PrivOf(c)) ) =>
                  /\ outcome[c].kind = "Err"
                  /\ outcome[c].at \in {"alloc_input", "alloc"}

C7_Witness ==
    \E c \in Calls : Done(c) /\ outcome[c] = [kind |-> "Err", at |-> "alloc"]

CleanAsserts == {"clean_public", "clean_private", "clean_constraints"}

\* C8: a target that is not in the empty state makes synthesis fail fatally
\* before any call is made on it: the target is as it was handed over.
C8_CleanTargetRequired ==
    \A c \in Calls :
        (given[c] # None /\ ~IsFresh(given[c])) =>
            /\ pc[c] = "done"
            /\ outcome[c].kind = "Panic" /\ outcome[c].at \in CleanAsserts
            /\ cs[c] = given[c]
            /\ trace[c] = <<>>
            /\ converter[c] = NewConverter

C8_Witness ==
    \E c \in Calls :
        /\ outcome[c] = [kind |-> "Panic", at |-> "clean_private"]
        /\ Len(given[c].private) > 0

\* C9 as stated: a call that returns without success leaves no partial result
\* in the target.
C9_Atomic ==
    \A c \in Calls : (Done(c) /\ outcome[c].kind = "Err") => cs[c] = given[c]

\* The number of calls of operation op among the calls s.
CountOf(s, op) == Cardinality({k \in DOMAIN s : s[k][1] = op})

\* C9, amended: a call that returns an error is not rolled back: the target
\* keeps what every call before the failing one added (variables, constraints,
\* tables, lookup constraints), and the failing call is the last one made.
C9_ErrorKeepsPrefix ==
    \A c \in Calls :
        (Done(c) /\ outcome[c].kind = "Err") =>
            LET made == SubSeq(trace[c], 1, Len(trace[c]) - 1)
            IN  /\ Len(cs[c].public) = 1 + CountOf(made, "alloc_input")
                /\ Len(cs[c].private) = CountOf(made, "alloc")
                /\ Len(cs[c].constraints) = CountOf(made, "enforce")
                /\ Len(cs[c].tables) = CountOf(made, "add_lookup_table")
                /\ Len(cs[c].lookups) = CountOf(made, "enforce_lookup")
                /\ made # <<>> => cs[c] # given[c]
                /\ trace[c][Len(trace[c])][1] = outcome[c].at
                /\ outcome[c].at = "enforce_lookup" =>
                      /\ Len(cs[c].public) = 1 + Len(PubOf(c))
                      /\ Len(cs[c].private) = Len(PrivOf(c))
                      /\ Len(cs[c].constraints) = Len(base.constraints)
                      /\ cs[c].tables = base.tables

C9_Witness ==
    \E c \in Calls :
        /\ Done(c) /\ outcome[c] = [kind |-> "Err", at |-> "enforce_lookup"]
        /\ cs[c] # given[c]
        /\ Len(cs[c].public) > 1 /\ Len(cs[c].constraints) >= 1

\* C10: with the calls of several instances over one base interleaved in any
\* way, every call ends as it does when run alone on its target; a step of one
\* call leaves every other call's target, converter and position alone, and no
\* step changes the base or an instance's maps.
C10_Independent ==
    /\ [](\A c \in Calls :
            Done(c) => Local(c) = S_generate_constraints(inst[c], base, given[c]))
    /\ [][/\ base' = base /\ inst' = inst /\ another' = another
          /\ \A c, d \in Calls :
                (c # d /\ Local(c)' # Local(c)) =>
                    (Local(d)' = Local(d) /\ given'[d] = given[d])]_vars

C10_Witness ==
    /\ \A c \in Calls : Ok(c) /\ IsFresh(given[c])
    /\ \E c, d \in Calls : c # d /\ cs[c] # cs[d]

NonzeroTerms(lc) == Cardinality({k \in DOMAIN lc.terms : lc.terms[k].coefficient # 0})

\* Constraints and lookup constraints of X, as (A, B, C).
Chain ==
    base.constraints
    \o [k \in DOMAIN base.lookup_constraints |-> SubSeq(base.lookup_constraints[k], 1, 3)]

\* The nonzeros of side n over the first k entries of the chain.
RECURSIVE SideTotal(_, _)
SideTotal(n, k) ==
    IF k = 0 THEN 0
    ELSE SideTotal(n, k - 1) + NonzeroTerms(Chain[k][n])
         + (IF Chain[k][n].constant # 0 THEN 1 ELSE 0)

\* C12: a linear combination of n terms, none of a zero coefficient, reports
\* n + 1 nonzeros when its constant is not zero and n when it is zero; the
\* triple Assignment::num_nonzeros returns totals these per side over the
\* constraints and the lookup constraints.
C12_NonzeroAccounting ==
    base # None =>
        /\ \A k \in DOMAIN Chain : \A n \in 1..3 :
              LET lc == Chain[k][n]
              IN  /\ lc.constant # 0 => num_nonzeros(lc) = NonzeroTerms(lc) + 1
                  /\ lc.constant = 0 => num_nonzeros(lc) = NonzeroTerms(lc)
        /\ nonzeros # None =>
              \A n \in 1..3 : nonzeros[n] = SideTotal(n, Len(Chain))

C12_Witness ==
    /\ base # None /\ nonzeros # None
    /\ Len(base.lookup_constraints) >= 1
    /\ \E k \in DOMAIN base.constraints :
          LET lc == base.constraints[k][1]
          IN  lc.constant # 0 /\ Len(lc.terms) >= 2 /\ num_nonzeros(lc) = Len(lc.terms) + 1
    /\ nonzeros[1] > nonzeros[2]

\* C13: the Assignment built from a source circuit with P public and R private
\* variables has P public and R private entries, keyed 0..len-1 in ascending
\* iteration order and holding the variables' values, and as many constraints
\* and lookup constraints as the circuit; synthesizing it trips none of the
\* assertions on the assignment: on a fresh target that refuses nothing it
\* returns Ok.
C13_ConstructionInvariant ==
    base # None =>
        /\ num_public(base) = Len(r1cs.public)
        /\ num_private(base) = Len(r1cs.private)
        /\ IsAscending(base.public) /\ IsAscending(base.private)
        /\ \A k \in DOMAIN base.public : base.public[k].value = r1cs.public[k].value
        /\ \A k \in DOMAIN base.private : base.private[k].value = r1cs.private[k].value
        /\ num_constraints(base) = Len(r1cs.constraints)
        /\ num_lookup_tables(base) = Len(r1cs.tables)
        /\ num_lookup_constraints(base) = Len(r1cs.lookup_constraints)
        /\ \A c \in Calls :
              Done(c) =>
                  /\ outcome[c].kind = "Panic" => outcome[c].at \in CleanAsserts
                  /\ (IsFresh(given[c])
                        /\ given[c].capacity >= num_public(base) + num_private(base)) =>
                        outcome[c].kind = "Ok"

C13_Witness ==
    /\ base # None
    /\ Len(r1cs.public) >= 1 /\ Len(r1cs.private) >= 1
    /\ \E c \in Calls :
          /\ Ok(c)
          /\ Len(cs[c].constraints) >= 1 /\ Len(cs[c].lookups) >= 1
          /\ Len(cs[c].constraints[1][1]) >= 2


\* C14: after a successful synthesis of an assignment with T tables and L
\* lookup constraints the target holds exactly the T tables, in the
\* assignment's order, and exactly L lookup constraints, the k-th bound to the
\* table index the assignment stores for it.
C14_TablesAndLookups ==
    \A c \in Calls :
        Ok(c) =>
            /\ Len(cs[c].tables) = num_lookup_tables(base)
            /\ \A k \in DOMAIN base.tables : cs[c].tables[k] = base.tables[k]
            /\ Len(cs[c].lookups) = num_lookup_constraints(base)
            /\ \A k \in DOMAIN base.lookup_constraints :
                  /\ cs[c].lookups[k][4] = base.lookup_constraints[k][4]
                  /\ cs[c].lookups[k][4] < Len(cs[c].tables)

C14_Witness ==
    \E c \in Calls :
        /\ Ok(c)
        /\ Len(cs[c].tables) >= 2 /\ cs[c].tables[1] # cs[c].tables[2]
        /\ Len(cs[c].lookups) >= 2
        /\ cs[c].lookups[1][4] = 1 /\ cs[c].lookups[2][4] = 0
        /\ ~cs_is_satisfied(cs[c])


\* The place of a target operation in the order of the five loops.
Rank(op) ==
    CASE op = "alloc_input" -> 1
      [] op = "alloc" -> 2
      [] op = "enforce" -> 3
      [] op = "add_lookup_table" -> 4
      [] op = "enforce_lookup" -> 5

\* C15: the calls a run makes on its target come in the order public
\* allocations, private allocations, constraint enforcements, table
\* registrations, lookup enforcements, none of a later kind before one of an
\* earlier kind; the calls of one kind come in list order, the k-th allocation
\* being that of index k; a run that returns Ok has made one call per entry.
C15_CallOrder ==
    \A c \in Calls :
        LET t == trace[c]
        IN  /\ \A j, k \in DOMAIN t : j < k => Rank(t[j][1]) <= Rank(t[k][1])
            /\ \A k \in DOMAIN t :
                  t[k][2] = Cardinality({j \in 1..(k - 1) : t[j][1] = t[k][1]})
            /\ \A k \in DOMAIN t :
                  /\ t[k][1] = "alloc_input" => PubOf(c)[t[k][2] + 1].index = t[k][2]
                  /\ t[k][1] = "alloc" => PrivOf(c)[t[k][2] + 1].index = t[k][2]
            /\ Ok(c) =>
                  /\ CountOf(t, "alloc_input") = Len(PubOf(c))
                  /\ CountOf(t, "alloc") = Len(PrivOf(c))
                  /\ CountOf(t, "enforce") = Len(base.constraints)
                  /\ CountOf(t, "add_lookup_table") = Len(base.tables)
                  /\ CountOf(t, "enforce_lookup") = Len(base.lookup_constraints)

C15_Witness ==
    \E c \in Calls :
        /\ Ok(c)
        /\ \A n \in 1..5 : \E k \in DOMAIN trace[c] : Rank(trace[c][k][1]) = n


\* The plain Assignment an instance stands for: its resolved public and
\* private maps with the constraints, tables and lookup constraints of X.
Resolved(c) ==
    Assignment(PubOf(c), PrivOf(c), base.constraints, base.tables, base.lookup_constraints)

\* C16: at every point of a synthesis of a SameCircuitAssignment, the calls
\* made so far, the target and the converter are those of the synthesis of the
\* plain Assignment it stands for, and carrying on as that Assignment's
\* synthesis does ends with the same calls, target and outcome (Ok, returned
\* error or fatal assertion); an instance made by single_one(X) stands for X.
C16_SameAsPlain ==
    \A c \in Calls :
        (inst[c] # None /\ given[c] # None) =>
            /\ A_run(Resolved(c), Local(c)) = A_generate_constraints(Resolved(c), given[c])
            /\ Done(c) => Local(c) = A_generate_constraints(Resolved(c), given[c])
            /\ another[c] = None => Resolved(c) = base

C16_Witness ==
    \E c \in Calls :
        /\ Ok(c) /\ Overridden(c)
        /\ Len(base.private) >= 1 /\ another[c].private # base.private
        /\ Len(base.constraints) >= 1 /\ Len(base.lookup_constraints) >= 1

C16_WitnessSingle ==
    \E c \in Calls :
        /\ Done(c) /\ inst[c] # None /\ another[c] = None
        /\ outcome[c].kind = "Panic" /\ outcome[c].at = "unwrap_private"


\* The target variable a source variable stands for.
TargetOf(v) == IF v.tag = "Public" THEN IndexPublic(v.arg + 1) ELSE IndexPrivate(v.arg)

\* What the conversion of lc is to add to the target's linear combination: a
\* term per source term, in source order, then the constant on public slot 0.
ExpectedLC(lc) ==
    [j \in DOMAIN lc.terms |->
        [coefficient |-> lc.terms[j].coefficient, variable |-> TargetOf(lc.terms[j].variable)]]
    \o (IF lc.constant # 0
        THEN <<[coefficient |-> lc.constant, variable |-> IndexPublic(0)]>>
        ELSE <<>>)

\* C17: every side of every constraint and lookup constraint the target has
\* received holds, in source term order, coefficient * target variable for
\* each source term (Public(i) on public slot i+1, Private(i) on private slot
\* i), followed by constant * public slot 0 exactly when the constant is not
\* zero.
C17_ConvertedTerms ==
    \A c \in Calls :
        cs[c] # None /\ given[c] # None /\ IsFresh(given[c]) =>
            /\ \A k \in DOMAIN cs[c].constraints : \A n \in 1..3 :
                  LET lc == base.constraints[k][n]
                      out == cs[c].constraints[k][n]
                  IN  /\ out = ExpectedLC(lc)
                      /\ Len(out) = Len(lc.terms) + (IF lc.constant # 0 THEN 1 ELSE 0)
                      /\ lc.constant = 0 =>
                            \A j \in DOMAIN out : out[j].variable # IndexPublic(0)
            /\ \A k \in DOMAIN cs[c].lookups : \A n \in 1..3 :
                  cs[c].lookups[k][n] = ExpectedLC(base.lookup_constraints[k][n])

C17_Witness ==
    \E c \in Calls :
        /\ Ok(c) /\ Len(cs[c].constraints) >= 1 /\ Len(cs[c].lookups) >= 1
        /\ LET t == base.constraints[1]
               out == cs[c].constraints[1]
           IN  /\ Len(t[1].terms) = 2 /\ t[1].constant = 0
               /\ out[1][1].variable = IndexPrivate(0) /\ out[1][2].variable = IndexPublic(1)
               /\ Len(t[2].terms) = 1 /\ t[2].constant # 0
               /\ out[2][2] = [coefficient |-> t[2].constant, variable |-> IndexPublic(0)]
               /\ t[3] = AssignmentLC(0, <<>>) /\ out[3] = <<>>


ConversionPanics == {"unreachable_constant", "unwrap_public", "unwrap_private"}

\* The fatal failure the conversion of a term over v meets, if any, with p
\* public and r private variables allocated.
BadKind(v, p, r) ==
    IF v.tag = "Constant" THEN "unreachable_constant"
    ELSE IF v.tag = "Public" /\ v.arg >= p THEN "unwrap_public"
    ELSE IF v.tag = "Private" /\ v.arg >= r THEN "unwrap_private"
    ELSE ""

\* The failures the three sides of t hold.
BadKinds(t, p, r) ==
    UNION {{BadKind(t[n].terms[j].variable, p, r) : j \in DOMAIN t[n].terms} :
           n \in 1..3} \ {""}

Least(S) == CHOOSE k \in S : \A j \in S : k <= j

\* The constraints and the lookup constraints of X that hold such a term.
BadConstraints(c) ==
    {k \in DOMAIN base.constraints :
        BadKinds(base.constraints[k], Len(PubOf(c)), Len(PrivOf(c))) # {}}
BadLookups(c) ==
    {k \in DOMAIN base.lookup_constraints :
        BadKinds(base.lookup_constraints[k], Len(PubOf(c)), Len(PrivOf(c))) # {}}

\* The run gets as far as converting the first of them.
ReachesBadTerm(c) ==
    /\ IsFresh(given[c])
    /\ IsAscending(PubOf(c)) /\ IsAscending(PrivOf(c))
    /\ given[c].capacity >= Len(PubOf(c)) + Len(PrivOf(c))
    /\ \/ BadConstraints(c) # {}
       \/ /\ BadLookups(c) # {}
          /\ \A k \in 1..(Least(BadLookups(c)) - 1) :
                base.lookup_constraints[k][4] < Len(base.tables)

\* C18: a constraint or lookup constraint with a Constant identity among its
\* term keys, or a Public or Private index at or beyond the number of
\* allocated variables of its kind, ends the run with a fatal assertion when
\* it is converted: the entries before it are in the target, it and those
\* after it are not, and neither Ok nor an error is returned.
C18_BadTermIsFatal ==
    \A c \in Calls :
        Done(c) =>
            /\ ReachesBadTerm(c) =>
                  outcome[c].kind = "Panic" /\ outcome[c].at \in ConversionPanics
            /\ outcome[c].at \in ConversionPanics =>
                  LET p == Len(PubOf(c))
                      r == Len(PrivOf(c))
                  IN  /\ outcome[c].kind = "Panic"
                      /\ ReachesBadTerm(c)
                      /\ IF BadConstraints(c) # {}
                         THEN LET k == Least(BadConstraints(c))
                              IN  /\ outcome[c].at \in BadKinds(base.constraints[k], p, r)
                                  /\ Len(cs[c].constraints) = k - 1
                                  /\ CountOf(trace[c], "enforce") = k - 1
                                  /\ cs[c].tables = <<>> /\ cs[c].lookups = <<>>
                         ELSE LET k == Least(BadLookups(c))
                              IN  /\ outcome[c].at \in
                                        BadKinds(base.lookup_constraints[k], p, r)
                                  /\ Len(cs[c].constraints) = Len(base.constraints)
                                  /\ Len(cs[c].lookups) = k - 1
                                  /\ CountOf(trace[c], "enforce_lookup") = k - 1

C18_Witness ==
    \E c \in Calls :
        /\ Done(c) /\ outcome[c] = [kind |-> "Panic", at |-> "unwrap_public"]
        /\ Len(cs[c].private) >= 1
        /\ Len(base.constraints) >= 1

C18_WitnessConstant ==
    \E c \in Calls :
        /\ Done(c) /\ outcome[c] = [kind |-> "Panic", at |-> "unreachable_constant"]
        /\ Len(cs[c].tables) >= 1 /\ Len(base.lookup_constraints) >= 1


\* The positions of the map m whose key is not the position.
Misplaced(m) == {k \in DOMAIN m : m[k].index # k - 1}

\* C19: when the entry at position i of the public (or private) map a run
\* synthesizes has a key other than i, the run ends with the order assertion
\* at the first such entry: the entries before it are allocated, it is not,
\* and no later call is made. This holds for X itself and for the maps of Y
\* in an instance made by create_with_base, which checked their counts only.
C19_OrderAsserted ==
    \A c \in Calls :
        (Done(c) /\ IsFresh(given[c])) =>
            LET badPub == Misplaced(PubOf(c))
                badPriv == Misplaced(PrivOf(c))
            IN  /\ (badPub # {} /\ given[c].capacity >= Least(badPub) - 1) =>
                      /\ outcome[c] = [kind |-> "Panic", at |-> "public_order"]
                      /\ Len(cs[c].public) = Least(badPub)
                      /\ trace[c] = [k \in 1..(Least(badPub) - 1) |-> <<"alloc_input", k - 1>>]
                      /\ cs[c].private = <<>>
                /\ ( /\ badPub = {} /\ badPriv # {}
                     /\ given[c].capacity >= Len(PubOf(c)) + Least(badPriv) - 1 ) =>
                      /\ outcome[c] = [kind |-> "Panic", at |-> "private_order"]
                      /\ Len(cs[c].public) = 1 + Len(PubOf(c))
                      /\ Len(cs[c].private) = Least(badPriv) - 1
                      /\ CountOf(trace[c], "alloc") = Least(badPriv) - 1
                      /\ Len(trace[c]) = Len(PubOf(c)) + Least(badPriv) - 1
                /\ outcome[c].at = "public_order" => badPub # {}
                /\ outcome[c].at = "private_order" => badPub = {} /\ badPriv # {}
                /\ (Overridden(c) /\ outcome[c].at \in {"public_order", "private_order"}) =>
                      /\ Len(another[c].public) = Len(base.public)
                      /\ Len(another[c].private) = Len(base.private)

C19_Witness ==
    \E c \in Calls :
        /\ Done(c) /\ Overridden(c)
        /\ outcome[c] = [kind |-> "Panic", at |-> "private_order"]
        /\ Len(cs[c].public) > 1
        /\ IsAscending(base.private)

C19_WitnessPlain ==
    \E c \in Calls :
        /\ Done(c) /\ inst[c] = None
        /\ outcome[c] = [kind |-> "Panic", at |-> "public_order"]

OverwriteAsserts == {"public_overwrite", "private_overwrite"}
SlotAsserts == {"slot_public", "slot_private"}

\* C20: at every point of a run the public table holds exactly the keys
\* 0..n-1, n the public variables allocated so far, key i on target public
\* slot i+1, and the private table exactly 0..m-1, key i on target private
\* slot i; the assertions against overwriting an entry and the assertions on
\* the slot inside the conversion of a linear combination never fail.
C20_TranslationTable ==
    \A c \in Calls :
        LET n == CountOf(trace[c], "alloc_input")
                 - (IF outcome[c].at = "alloc_input" THEN 1 ELSE 0)
            m == CountOf(trace[c], "alloc") - (IF outcome[c].at = "alloc" THEN 1 ELSE 0)
        IN  /\ DOMAIN converter[c].public = 0..(n - 1)
            /\ DOMAIN converter[c].private = 0..(m - 1)
            /\ \A i \in DOMAIN converter[c].public :
                  converter[c].public[i] = IndexPublic(i + 1)
            /\ \A i \in DOMAIN converter[c].private :
                  converter[c].private[i] = IndexPrivate(i)
            /\ cs[c] # None /\ IsFresh(given[c]) =>
                  Len(cs[c].public) = n + 1 /\ Len(cs[c].private) = m
            /\ pc[c] \in {"constraints", "tables", "lookups", "post"} =>
                  n = Len(PubOf(c)) /\ m = Len(PrivOf(c))
            /\ outcome[c].at \notin OverwriteAsserts \cup SlotAsserts

C20_Witness ==
    \E c \in Calls :
        /\ pc[c] = "lookups"
        /\ DOMAIN converter[c].public # {} /\ DOMAIN converter[c].private # {}
        /\ Len(cs[c].constraints) >= 1
        /\ Len(cs[c].constraints[1][1]) = 2 /\ Len(cs[c].constraints[1][3]) >= 1


\* The synthesis of X itself into the target the call was given.
RunOfBase(c) == A_generate_constraints(base, given[c])

\* C21: when X synthesizes successfully into a fresh target, an instance made
\* by create_with_base(X, Y), Y with its keys in ascending order 0..len-1,
\* synthesizes successfully into a fresh target of the same kind, making the
\* same calls and leaving the same numbers of public variables, private
\* variables and constraints as the synthesis of X: the counts compared at
\* construction keep every lookup in the translation table and the final
\* assertions from failing.
C21_OverrideSucceedsLikeBase ==
    \A c \in Calls :
        ( /\ Overridden(c) /\ given[c] # None /\ IsFresh(given[c])
          /\ IsAscending(another[c].public) /\ IsAscending(another[c].private)
          /\ RunOfBase(c).outcome.kind = "Ok" ) =>
            /\ outcome[c].kind \in {"None", "Ok"}
            /\ outcome[c].at \notin ConversionPanics \cup PostAsserts
            /\ Done(c) =>
                  /\ outcome[c].kind = "Ok"
                  /\ trace[c] = RunOfBase(c).trace
                  /\ cs_num_public_variables(cs[c])
                        = cs_num_public_variables(RunOfBase(c).cs)
                  /\ cs_num_private_variables(cs[c])
                        = cs_num_private_variables(RunOfBase(c).cs)
                  /\ cs_num_constraints(cs[c]) = cs_num_constraints(RunOfBase(c).cs)
                  /\ cs[c].constraints = RunOfBase(c).cs.constraints
                  /\ cs[c].tables = RunOfBase(c).cs.tables
                  /\ cs[c].lookups = RunOfBase(c).cs.lookups

C21_Witness ==
    \E c \in Calls :
        /\ Ok(c) /\ Overridden(c)
        /\ Len(another[c].private) >= 1 /\ another[c].private # base.private
        /\ another[c].public # base.public
        /\ cs[c].private # RunOfBase(c).cs.private
        /\ Len(cs[c].constraints) >= 1 /\ Len(cs[c].constraints[1][1]) >= 1
        /\ Len(cs[c].lookups) >= 1

====
